---- MODULE Spec2Model ----
(***************************************************************************)
(* State-machine model of src/components/SqlChatbot.jsx: the two SqlChatbot *)
(* components (the shell with sidebar, lines 1-418, and the simple boxed    *)
(* one, lines 420-693) and the callGenerateSqlAPI client each of them uses. *)
(*                                                                         *)
(* React state (messages, input, loading, model) is the model's state; one  *)
(* action per event handler.  An async handler is split at its only         *)
(* suspension point, the awaited network call: handleAsk runs to the fetch, *)
(* the network settles the fetch promise, and handleAskResume runs the rest *)
(* of callGenerateSqlAPI and of handleAsk (try / catch / finally).          *)
(*                                                                         *)
(* Handlers read the state of the latest render.  React commits the updates  *)
(* of an event handler before the next event is dispatched, and the updates *)
(* made after the await in one batch, so each handler part is one step.     *)
(*                                                                         *)
(* Typed text is a sequence of characters, so that String.prototype.trim is *)
(* computed; every other JS string is a TLA+ string.                        *)
(***************************************************************************)
EXTENDS Integers, Sequences, FiniteSets, TLC

VARIABLES
    variant,    \* which of the two components is mounted: "shell" or "simple"
    messages,   \* useState: the conversation (lines 132-141, 533-542)
    input,      \* useState: the text in the textarea (lines 142, 543)
    loading,    \* useState: the pending flag (lines 143, 544)
    model,      \* useState: the selected model id (line 144; shell only)
    requests,   \* the fetch calls whose handleAsk has not resumed yet
    lastOp,     \* the step that ran last (bookkeeping for the properties)
    arg,        \* ApiSpec only: the arguments of a direct callGenerateSqlAPI call
    result      \* ApiSpec only: what that call returned or threw

vars == <<variant, messages, input, loading, model, requests, lastOp, arg, result>>

----------------------------------------------------------------------------
(* Bounds and input alphabets *)

\* Longest conversation the model lets a submission grow towards.
MaxMsgs == 4

\* Texts the user may have typed: empty, blank, plain, padded, inner space.
Inputs == { <<>>, <<" ">>, <<"a">>, <<" ", "a", "\n">>, <<"a", " ", "b">> }

\* Values Date.now() may return.  createdAt is written and never read, so one
\* value stands for every reading of the clock.
Times == {0}

----------------------------------------------------------------------------
(* JavaScript values *)

\* The value undefined, where the code otherwise holds a string.
Undefined == "<undefined>"

JsUndefined == [t |-> "undefined"]
JsNull == [t |-> "null"]
JsString(s) == [t |-> "string", v |-> s]

\* a || b on strings: the empty string and undefined are falsy.
OrElse(a, b) == IF a \in {Undefined, ""} THEN b ELSE a

\* as String(v) would do, in place of v ?? ""
NullishAsText(v) == IF v.t = "string" THEN v.v ELSE v.t

\* v ?? "" on a tagged value that is undefined, null or a string.
NullishEmpty(v) == IF v.t \in {"undefined", "null"} THEN "" ELSE v.v

WhiteSpace == {" ", "\n", "\t"}

RECURSIVE TrimStart(_)
TrimStart(s) ==
    IF s # <<>> /\ Head(s) \in WhiteSpace THEN TrimStart(Tail(s)) ELSE s

RECURSIVE TrimEnd(_)
TrimEnd(s) ==
    IF s # <<>> /\ s[Len(s)] \in WhiteSpace
    THEN TrimEnd(SubSeq(s, 1, Len(s) - 1))
    ELSE s

\* String.prototype.trim
Trim(s) == TrimEnd(TrimStart(s))

----------------------------------------------------------------------------
(* The query service client: callGenerateSqlAPI *)

KeywordUrl == "https://generate-sql.local/generate_sql"
PremiumUrl == "https://generate-sql.local/generate_sql_premium"

\* const MODELS: the ids of the options of the model <select>.
MODELS == <<"keyword", "cluster">>

\* Names every object literal inherits from Object.prototype (a sample), with
\* the text fetch() makes of the inherited value when handed it as a URL.
ObjectPrototype ==
    [ constructor |-> "function Object() { [native code] }",
      toString |-> "function toString() { [native code] }" ]

\* ENDPOINTS[key]: an own property, else an inherited one, else undefined.
ENDPOINTS(key) ==
    CASE key = "keyword" -> KeywordUrl
      [] key = "cluster" -> PremiumUrl
      [] key \in DOMAIN ObjectPrototype -> ObjectPrototype[key]
      [] OTHER -> Undefined

\* const apiUrl = ENDPOINTS[modelId] || ENDPOINTS.keyword
ApiUrl(modelId) == OrElse(ENDPOINTS(modelId), ENDPOINTS("keyword"))

\* the payload with model: "gpt-5" in place of model: modelId || "gpt-5"
PayloadWithFixedModel(question, modelId) ==
    [ question |-> question,
      schema_path |-> "schema_tree.json",
      keywords_path |-> "keyword_to_tables.json",
      dialect |-> "mysql",
      model |-> "gpt-5" ]

\* const payload = {...} of the shell's client
Payload(question, modelId) ==
    [ question |-> question,
      schema_path |-> "schema_tree.json",
      keywords_path |-> "keyword_to_tables.json",
      dialect |-> "mysql",
      model |-> OrElse(modelId, "gpt-5") ]

\* The simple component's client: one URL, a constant model name.
API_URL == "https://generate-sql.local/generate_sql"

SimplePayload(question) ==
    [ question |-> question,
      schema_path |-> "schema_tree.json",
      keywords_path |-> "keyword_to_tables.json",
      dialect |-> "mysql",
      model |-> "gpt-5" ]

(* What the network can answer.  A body is the text received and what        *)
(* JSON.parse makes of it (Invalid when it is not JSON), or a stream that     *)
(* breaks while it is read.                                                   *)
Invalid == [t |-> "invalid"]
JsonObject(sql, explanation) ==
    [t |-> "object", sql |-> sql, explanation |-> explanation]

Body(text, json) == [t |-> "complete", text |-> text, json |-> json]
AbortedBody(message) == [t |-> "aborted", message |-> message]

Bodies ==
    { Body("boom", Invalid),
      Body("", Invalid),
      Body("null", JsNull),
      Body("5", [t |-> "number"]),
      Body("{}", JsonObject(JsUndefined, JsUndefined)),
      Body("{sql:S,explanation:E}",
           JsonObject(JsString("SELECT 1"), JsString("because"))),
      Body("{sql:null,explanation:E}",
           JsonObject(JsNull, JsString("because"))),
      Body("{sql:S}", JsonObject(JsString("SELECT 1"), JsUndefined)),
      AbortedBody("network error") }

Response(ok, status, body) ==
    [t |-> "response", ok |-> ok, status |-> status, body |-> body]

Responses ==
    { Response(TRUE, 200, b) : b \in Bodies } \cup
    { Response(FALSE, 500, b) :
        b \in { Body("boom", Invalid), Body("", Invalid), AbortedBody("network error") } }

\* Messages of the TypeError fetch() rejects with.
NetworkErrors == {"Failed to fetch"}

NoResponse == [t |-> "none"]
Rejection(message) == [t |-> "rejected", message |-> message]

\* An Error object: its name and message.
Err(name, message) == [name |-> name, message |-> message]

\* String(err): "Name" when the message is empty, else "Name: message".
ErrToString(e) ==
    IF e.message = "" THEN e.name ELSE e.name \o ": " \o e.message

Throw(e) == [t |-> "throw", err |-> e]
Return(sql, explanation) ==
    [t |-> "return", sql |-> sql, explanation |-> explanation]

\* data.sql / data.explanation: reading a property of null throws; a
\* primitive has no such property.
ReadFields(data) ==
    IF data.t = "null"
    THEN Throw(Err("TypeError", "Cannot read properties of null (reading 'sql')"))
    ELSE IF data.t = "object"
    THEN Return(NullishEmpty(data.sql), NullishEmpty(data.explanation))
    ELSE Return(NullishEmpty(JsUndefined), NullishEmpty(JsUndefined))

\* await res.text(), then throw new Error(text)
TextThenThrow(body) ==
    IF body.t = "aborted"
    THEN Throw(Err("TypeError", body.message))
    ELSE Throw(Err("Error", body.text))

\* await res.json(), then the returned object
JsonThenReturn(body) ==
    IF body.t = "aborted"
    THEN Throw(Err("TypeError", body.message))
    ELSE IF body.json.t = "invalid"
    THEN Throw(Err("SyntaxError", "Unexpected token in JSON"))
    ELSE ReadFields(body.json)

\* callGenerateSqlAPI from the point where the fetch promise has settled with
\* net (a rejection or a response) to its return or throw.
AfterFetch(net) ==
    IF net.t = "rejected"
    THEN Throw(Err("TypeError", net.message))
    ELSE IF ~net.ok
    THEN TextThenThrow(net.body)
    ELSE JsonThenReturn(net.body)

\* The fetch issued by a call of the client, and what its caller will need
\* when it resumes: question and model are the variables handleAsk closes over.
Request(rid, url, payload, question, modelId) ==
    [ rid |-> rid, url |-> url, payload |-> payload,
      question |-> question, model |-> modelId, net |-> NoResponse ]

\* callGenerateSqlAPI(question, modelId) up to its first await (shell).
callGenerateSqlAPI(rid, question, modelId) ==
    Request(rid, ApiUrl(modelId), Payload(question, modelId), question, modelId)

\* callGenerateSqlAPI(question) up to its first await (simple).
callGenerateSqlAPISimple(rid, question) ==
    Request(rid, API_URL, SimplePayload(question), question, Undefined)

----------------------------------------------------------------------------
(* Messages *)

SeedText == "Hi! Ask me a data question. I'll propose a MySQL query and explain it."
SeedExplanation ==
    "Example: 'Total production by provider for September 2025' or 'New patients scheduled on 2025-10-13'."

\* The greeting both components start with and the shell resets to.
SeedMessage(t) ==
    [ id |-> "seed", role |-> "assistant", text |-> SeedText,
      explanation |-> SeedExplanation, createdAt |-> t ]

UserMessage(id, question, t) ==
    [ id |-> id, role |-> "user", text |-> question, createdAt |-> t ]

\* the text naming the model selected when the answer arrives, not the one
\* handleAsk closed over
AnswerTextOfSelectedModel(v, modelId) ==
    IF v = "shell"
    THEN "Here is a suggested SQL query using " \o model \o "."
    ELSE "Here is a suggested SQL query and an explanation."

\* The text of an answer: the shell names the model handleAsk closed over.
AnswerText(v, modelId) ==
    IF v = "shell"
    THEN "Here is a suggested SQL query using " \o modelId \o "."
    ELSE "Here is a suggested SQL query and an explanation."

AnswerMessage(id, text, sql, explanation, t) ==
    [ id |-> id, role |-> "assistant", text |-> text, sql |-> sql,
      explanation |-> explanation, createdAt |-> t ]

ErrorMessage(id, err, t) ==
    [ id |-> id, role |-> "assistant",
      text |-> "Sorry, I couldn't generate a query.",
      explanation |-> OrElse(err.message, ErrToString(err)),
      createdAt |-> t,
      error |-> JsString("true") ]

\* The assistant message handleAsk builds from the client's outcome.
AssistantMessage(v, id, modelId, outcome, t) ==
    IF outcome.t = "return"
    THEN AnswerMessage(id, AnswerText(v, modelId), outcome.sql, outcome.explanation, t)
    ELSE ErrorMessage(id, outcome.err, t)

\* crypto.randomUUID(): an id no message of the conversation has; the model
\* takes the first unused one of a fixed list.
UUID(n) == "uuid-" \o ToString(n)
randomUUID(ms) ==
    LET used == { ms[i].id : i \in 1..Len(ms) }
        n == CHOOSE k \in 1..(Len(ms) + 1) :
                 /\ UUID(k) \notin used
                 /\ \A j \in 1..(k - 1) : UUID(j) \in used
    IN  UUID(n)

\* The first request number no outstanding request has.
NewRid(rs) ==
    CHOOSE k \in 1..(Cardinality(rs) + 1) :
        /\ \A r \in rs : r.rid # k
        /\ \A j \in 1..(k - 1) : \E r \in rs : r.rid = j

----------------------------------------------------------------------------
(* The component *)

\* Arguments and result of a direct call, when there is none.
NoArg == [t |-> "none"]
NoResult == [t |-> "none"]

\* the guard without its loading test, and without its blank test
AskRejectedIfBlank(question, isLoading) == question = <<>>
AskRejectedIfLoading(question, isLoading) == isLoading

\* if (!question || loading) return;
AskRejected(question, isLoading) == question = <<>> \/ isLoading

\* [msg, ...m] and [...m, msg, msg] in place of [...m, msg]
PrependMessage(m, msg) == <<msg>> \o m
AppendMessageTwice(m, msg) == Append(Append(m, msg), msg)

\* setMessages((m) => [...m, msg])
AppendMessage(m, msg) == Append(m, msg)

\* setMessages((m) => [seed, ...m.slice(1)]) in place of setMessages([seed])
NewChatKeepsHistory(m, t) == <<SeedMessage(t)>> \o Tail(m)

\* setMessages([seed]) of handleNewChat
NewChatMessages(m, t) == <<SeedMessage(t)>>

\* setLoading(false) at the end of the try block only
LoadingClearedOnSuccessOnly(outcome) == outcome.t = "throw"

\* finally { setLoading(false) }
LoadingAfterSettle(outcome) == FALSE

Init ==
    /\ variant \in {"shell", "simple"}
    /\ \E t \in Times : messages = <<SeedMessage(t)>>
    /\ input = <<>>
    /\ loading = FALSE
    /\ model = MODELS[1]
    /\ requests = {}
    /\ lastOp = "mount"
    /\ arg = NoArg
    /\ result = NoResult

\* onChange of the textarea: setInput(e.target.value)
setInput ==
    /\ \E s \in Inputs : input' = s
    /\ lastOp' = "setInput"
    /\ UNCHANGED <<variant, messages, loading, model, requests, arg, result>>

\* onChange of the model <select>: setModel(e.target.value)
setModel ==
    /\ variant = "shell"
    /\ \E i \in 1..Len(MODELS) : model' = MODELS[i]
    /\ lastOp' = "setModel"
    /\ UNCHANGED <<variant, messages, input, loading, requests, arg, result>>

\* handleAsk up to its await: the guard, the three state updates, the fetch.
\* Reached from the button's onClick, the form's onSubmit and (shell) Enter.
handleAsk ==
    LET question == Trim(input) IN
    /\ lastOp' = "handleAsk"
    /\ IF AskRejected(question, loading)
       THEN UNCHANGED <<variant, messages, input, loading, model, requests, arg, result>>
       ELSE /\ Len(messages) + 2 <= MaxMsgs
            /\ \E t \in Times :
                 messages' = AppendMessage(messages,
                                 UserMessage(randomUUID(messages), question, t))
            /\ input' = <<>>
            /\ loading' = TRUE
            /\ requests' = requests \cup
                 { IF variant = "shell"
                   THEN callGenerateSqlAPI(NewRid(requests), question, model)
                   ELSE callGenerateSqlAPISimple(NewRid(requests), question) }
            /\ UNCHANGED <<variant, model, arg, result>>

\* The network settles a fetch promise: it rejects ...
fetchRejects ==
    /\ \E r \in requests, msg \in NetworkErrors :
         /\ r.net.t = "none"
         /\ requests' = (requests \ {r}) \cup {[r EXCEPT !.net = Rejection(msg)]}
    /\ lastOp' = "fetch"
    /\ UNCHANGED <<variant, messages, input, loading, model, arg, result>>

\* ... or resolves with a response.
fetchResolves ==
    /\ \E r \in requests, res \in Responses :
         /\ r.net.t = "none"
         /\ requests' = (requests \ {r}) \cup {[r EXCEPT !.net = res]}
    /\ lastOp' = "fetch"
    /\ UNCHANGED <<variant, messages, input, loading, model, arg, result>>

\* handleAsk after its await: the rest of callGenerateSqlAPI, then the try or
\* the catch branch, then finally.
handleAskResume ==
    /\ \E r \in requests, t \in Times :
         /\ r.net.t # "none"
         /\ LET outcome == AfterFetch(r.net) IN
            /\ messages' = AppendMessage(messages,
                   AssistantMessage(variant, randomUUID(messages), r.model, outcome, t))
            /\ loading' = LoadingAfterSettle(outcome)
         /\ requests' = requests \ {r}
    /\ lastOp' = "handleAskResume"
    /\ UNCHANGED <<variant, input, model, arg, result>>

\* handleNewChat as it would be if it also dropped the pending request and
\* cleared the pending flag
handleNewChatCancels ==
    /\ variant = "shell"
    /\ \E t \in Times : messages' = NewChatMessages(messages, t)
    /\ input' = <<>>
    /\ loading' = FALSE
    /\ requests' = {}
    /\ lastOp' = "handleNewChat"
    /\ UNCHANGED <<variant, model, arg, result>>

\* New chat / Clear messages (shell)
handleNewChat ==
    /\ variant = "shell"
    /\ \E t \in Times : messages' = NewChatMessages(messages, t)
    /\ input' = <<>>
    /\ lastOp' = "handleNewChat"
    /\ UNCHANGED <<variant, loading, model, requests, arg, result>>

Next ==
    \/ setInput
    \/ setModel
    \/ handleAsk
    \/ fetchRejects
    \/ fetchResolves
    \/ handleAskResume
    \/ handleNewChat

Spec == Init /\ [][Next]_vars

\* The claims that say "eventually" assume that every fetch settles; the event
\* loop then runs the continuation of the awaiting handleAsk.
LiveSpec ==
    /\ Spec
    /\ WF_vars(fetchRejects \/ fetchResolves)
    /\ WF_vars(handleAskResume)

----------------------------------------------------------------------------
(* The client called directly, with any model id *)

Questions == { Trim(s) : s \in Inputs } \ {<<>>}

\* Model ids a caller may pass: the two configured ones, none, and
\* unrecognised ones.
ModelIds == {"keyword", "cluster", Undefined, "", "gpt-5", "constructor"}

ApiInit ==
    /\ variant = "shell"
    /\ \E t \in Times : messages = <<SeedMessage(t)>>
    /\ input = <<>>
    /\ loading = FALSE
    /\ model = MODELS[1]
    /\ requests = {}
    /\ lastOp = "mount"
    /\ arg \in [t : {"call"}, question : Questions, modelId : ModelIds]
    /\ result = NoResult

\* callGenerateSqlAPI(arg.question, arg.modelId) up to its await
apiCall ==
    /\ requests = {}
    /\ result = NoResult
    /\ requests' = {callGenerateSqlAPI(NewRid(requests), arg.question, arg.modelId)}
    /\ lastOp' = "callGenerateSqlAPI"
    /\ UNCHANGED <<variant, messages, input, loading, model, arg, result>>

\* ... and from the settled fetch to its return or throw
apiReturn ==
    /\ \E r \in requests :
         /\ r.net.t # "none"
         /\ result' = AfterFetch(r.net)
         /\ requests' = requests \ {r}
    /\ lastOp' = "callGenerateSqlAPI"
    /\ UNCHANGED <<variant, messages, input, loading, model, arg>>

ApiNext ==
    \/ apiCall
    \/ fetchRejects
    \/ fetchResolves
    \/ apiReturn

ApiSpec == ApiInit /\ [][ApiNext]_vars

----------------------------------------------------------------------------
(* Properties *)

Last(ms) == ms[Len(ms)]

JsBoolean(b) == [t |-> "boolean", v |-> b]

\* a === b on tagged values: the same type, then the same value.
StrictEquals(a, b) ==
    /\ a.t = b.t
    /\ (a.t \in {"string", "boolean"} => a.v = b.v)

\* ms2 is ms with exactly one message added at the end.
AppendedOne(ms, ms2) ==
    /\ Len(ms2) = Len(ms) + 1
    /\ SubSeq(ms2, 1, Len(ms)) = ms

\* The step resumes the handleAsk that awaits r.
Resumed(r) ==
    /\ r \in requests
    /\ r.net.t # "none"
    /\ r \notin requests'

IsSeed(m) ==
    /\ DOMAIN m = {"id", "role", "text", "explanation", "createdAt"}
    /\ m.id = "seed"
    /\ m.role = "assistant"
    /\ m.text = SeedText
    /\ m.explanation = SeedExplanation

IsUserMessage(m, question) ==
    /\ m.role = "user"
    /\ m.text = question

\* C1: in every reachable state at most one generate-SQL request is
\* outstanding, whatever the interleaving of submit attempts, resets, model
\* changes and settlements.
C1_AtMostOneOutstanding == Cardinality(requests) <= 1

\* C1 witness: a submit attempt with a non-blank question was just made while
\* a request was outstanding, and there is still exactly one.
C1_Witness ==
    /\ lastOp = "handleAsk"
    /\ Trim(input) # <<>>
    /\ Cardinality(requests) = 1

\* C2: a submit attempt made while a request is pending, or with an input
\* that is empty after trimming, changes neither the messages, the pending
\* flag, the input text nor the selected model, and issues no request.
C2_RejectedSubmitIsNoOp ==
    [][ (lastOp' = "handleAsk" /\ (loading \/ Trim(input) = <<>>))
          => UNCHANGED <<messages, loading, input, model, requests>> ]_vars

\* C2 witness: a whitespace-only input was submitted with nothing pending.
C2_Witness ==
    /\ lastOp = "handleAsk"
    /\ ~loading
    /\ input # <<>>
    /\ Trim(input) = <<>>

\* C3 as claimed: when the request of an accepted submission settles, the
\* assistant message it produces follows, in the conversation, the user
\* message that submission appended.
C3_AnswerFollowsItsQuestion ==
    [][ \A r \in requests :
          Resumed(r) =>
            /\ Len(messages') >= 2
            /\ IsUserMessage(messages'[Len(messages') - 1], r.question)
            /\ Last(messages').role = "assistant" ]_vars

\* C3 as amended: an accepted submission appends exactly one user message
\* with the trimmed input as its text and issues one request; an outstanding
\* request is eventually resumed (there is never more than one), and that
\* step appends exactly one assistant message, made from the request's
\* outcome, to the conversation as it then is: right after the user message,
\* or right after the seed message when a reset came in between.  No other
\* step adds an assistant message.
C3_OneUserThenOneAssistant ==
    /\ [][ (lastOp' = "handleAsk" /\ ~(loading \/ Trim(input) = <<>>))
             => /\ AppendedOne(messages, messages')
                /\ IsUserMessage(Last(messages'), Trim(input))
                /\ Cardinality(requests') = Cardinality(requests) + 1 ]_vars
    /\ [][ \A r \in requests :
             Resumed(r) =>
               /\ AppendedOne(messages, messages')
               /\ Last(messages').role = "assistant"
               /\ ("error" \in DOMAIN Last(messages')) = (AfterFetch(r.net).t = "throw")
               /\ \/ IsUserMessage(Last(messages), r.question)
                  \/ (Len(messages) = 1 /\ IsSeed(messages[1])) ]_vars
    /\ [][ (Len(messages') > Len(messages) /\ Last(messages').role = "assistant")
             => \E r \in requests : Resumed(r) ]_vars
    /\ (requests # {}) ~> (requests = {})

\* C3 witness: a request settled after a reset, so that its assistant message
\* follows the seed message.
C3_Witness ==
    /\ lastOp = "handleAskResume"
    /\ Len(messages) = 2
    /\ IsSeed(messages[1])
    /\ messages[2].role = "assistant"
    /\ requests = {}

\* C4: after a non-success response with body B, or a network failure with
\* message B, the appended assistant message has error === true, explanation
\* B and no sql.
C4_ErrorIsTrue ==
    [][ \A r \in requests :
          (Resumed(r) /\ (r.net.t = "rejected" \/ (~r.net.ok /\ r.net.body.t = "complete")))
            => LET a == Last(messages')
                   B == IF r.net.t = "rejected" THEN r.net.message ELSE r.net.body.text
               IN  /\ AppendedOne(messages, messages')
                   /\ a.role = "assistant"
                   /\ "error" \in DOMAIN a
                   /\ StrictEquals(a.error, JsBoolean(TRUE))
                   /\ a.explanation = B
                   /\ "sql" \notin DOMAIN a ]_vars

\* A string field of a parsed response, "" when the object has no such field.
FieldOrEmpty(v) == IF v.t = "string" THEN v.v ELSE ""

\* C5: after a success response whose JSON object has string fields sql S and
\* explanation E, either of which may be missing, the appended assistant
\* message has sql S and explanation E, "" for a missing one, and no error
\* field.
C5_AnswerCarriesFields ==
    [][ \A r \in requests :
          ( /\ Resumed(r)
            /\ r.net.t = "response"
            /\ r.net.ok
            /\ r.net.body.t = "complete"
            /\ r.net.body.json.t = "object"
            /\ r.net.body.json.sql.t \in {"string", "undefined"}
            /\ r.net.body.json.explanation.t \in {"string", "undefined"} )
            => LET a == Last(messages') IN
               /\ AppendedOne(messages, messages')
               /\ a.role = "assistant"
               /\ "error" \notin DOMAIN a
               /\ a.sql = FieldOrEmpty(r.net.body.json.sql)
               /\ a.explanation = FieldOrEmpty(r.net.body.json.explanation) ]_vars

\* C5 witness: an answer made from {sql: "SELECT 1"}: the missing explanation
\* is stored as "".
C5_Witness ==
    /\ lastOp = "handleAskResume"
    /\ "sql" \in DOMAIN Last(messages)
    /\ Last(messages).sql = "SELECT 1"
    /\ Last(messages).explanation = ""

\* C6: right after handleNewChat, whatever the state before it, the
\* conversation is exactly the seed message.
C6_ResetYieldsSeed ==
    lastOp = "handleNewChat" => (Len(messages) = 1 /\ IsSeed(messages[1]))

\* C6 witness: a reset made while a request is pending.
C6_Witness ==
    /\ lastOp = "handleNewChat"
    /\ loading
    /\ requests # {}

\* C7: a step leaves the conversation as it is, appends one message to it, or
\* (handleNewChat only) replaces it by the seed message.
C7_AppendOnlyOrReset ==
    [][ \/ messages' = messages
        \/ AppendedOne(messages, messages')
        \/ /\ lastOp' = "handleNewChat"
           /\ Len(messages') = 1
           /\ IsSeed(messages'[1]) ]_vars

\* C7 witness: a second question was answered in a conversation that already
\* held an answer.
C7_Witness ==
    /\ lastOp = "handleAskResume"
    /\ Len(messages) = 4
    /\ messages[3].role = "user"

\* C8: loading is true exactly when one request is in flight.
C8_LoadingIffInFlight ==
    /\ loading => Cardinality(requests) = 1
    /\ ~loading => requests = {}

\* C8 witness: loading was cleared by a request that failed.
C8_Witness ==
    /\ lastOp = "handleAskResume"
    /\ ~loading
    /\ "error" \in DOMAIN Last(messages)

\* C9: a request goes to the premium URL exactly when its model id is
\* "cluster"; with "keyword", no id or an unrecognised id it goes to the basic
\* URL.
C9_RoutedByModel ==
    \A r \in requests :
        /\ (r.url = PremiumUrl) = (r.model = "cluster")
        /\ r.model # "cluster" => r.url = KeywordUrl

\* C10: after a success response whose JSON body is null, not an object, or
\* an object with neither field, the appended assistant message is an answer
\* (no error) with sql "" and explanation "".
C10_OtherShapesAreEmpty ==
    [][ \A r \in requests :
          ( /\ Resumed(r)
            /\ r.net.t = "response"
            /\ r.net.ok
            /\ r.net.body.t = "complete"
            /\ \/ r.net.body.json.t \in {"null", "number"}
               \/ /\ r.net.body.json.t = "object"
                  /\ r.net.body.json.sql.t = "undefined"
                  /\ r.net.body.json.explanation.t = "undefined" )
            => LET a == Last(messages') IN
               /\ a.role = "assistant"
               /\ "error" \notin DOMAIN a
               /\ "sql" \in DOMAIN a
               /\ a.sql = ""
               /\ a.explanation = "" ]_vars

\* The fields every request body has, and the three whose values never vary.
HasFixedConfiguration(r) ==
    /\ DOMAIN r.payload = {"question", "schema_path", "keywords_path", "dialect", "model"}
    /\ r.payload.question = r.question
    /\ r.payload.schema_path = "schema_tree.json"
    /\ r.payload.keywords_path = "keyword_to_tables.json"
    /\ r.payload.dialect = "mysql"

\* C11 as claimed: every request body is the question plus schema_path,
\* keywords_path, dialect and a model name that are the same constants in
\* every request, whatever model is selected ("gpt-5" is the one model name
\* the source spells out).
C11_ConfigurationIsConstant ==
    \A r \in requests :
        /\ HasFixedConfiguration(r)
        /\ r.payload.model = "gpt-5"

\* C11 as amended: every request body is the question plus schema_path,
\* keywords_path and dialect, which are the same constants in every request,
\* and a model field that is the model id the request was made for: the id
\* selected in the shell, "gpt-5" when there is none (always so in the simple
\* component).
C11_ModelFieldFollowsSelection ==
    \A r \in requests :
        /\ HasFixedConfiguration(r)
        /\ r.payload.model = (IF r.model \in {Undefined, ""} THEN "gpt-5" ELSE r.model)

\* C11 witness: a request was just issued with the premium model selected,
\* and its body names that model.
C11_Witness ==
    /\ lastOp = "handleAsk"
    /\ model = "cluster"
    /\ \E r \in requests : r.payload.model = "cluster"

\* C12: a reset made while a request is pending leaves the request, the
\* pending flag and the selected model as they are; the flag is cleared only
\* by the step that resumes the request's handleAsk, a submission made before
\* that is rejected, and the resuming step appends the request's assistant
\* message to the conversation as the reset left it.
C12_ResetDoesNotCancel ==
    /\ [][ (lastOp' = "handleNewChat" /\ loading)
             => UNCHANGED <<loading, model, requests>> ]_vars
    /\ [][ (loading /\ ~loading') => \E r \in requests : Resumed(r) ]_vars
    /\ [][ (lastOp' = "handleAsk" /\ loading)
             => UNCHANGED <<messages, requests, loading>> ]_vars
    /\ [][ \A r \in requests :
             (Resumed(r) /\ Len(messages) = 1)
               => /\ Len(messages') = 2
                  /\ IsSeed(messages'[1])
                  /\ messages'[2].role = "assistant"
                  /\ messages'[2].id # "seed"
                  /\ ~loading' ]_vars

\* C12 witness: after a reset with the request still pending, a non-blank
\* question was submitted and rejected.
C12_Witness ==
    /\ lastOp = "handleAsk"
    /\ loading
    /\ Len(messages) = 1
    /\ Trim(input) # <<>>
    /\ requests # {}

IsAssistantReply(m) == m.role = "assistant" /\ m.id # "seed"

\* C13 as claimed: the conversation is the seed message followed by strictly
\* alternating user and assistant messages, every assistant message other
\* than the seed directly after a user message, and it ends with an
\* unanswered user message exactly when a request is pending.
C13_SeedThenAlternating ==
    /\ IsSeed(messages[1])
    /\ \A i \in 2..Len(messages) :
         /\ messages[i].role = (IF i % 2 = 0 THEN "user" ELSE "assistant")
         /\ IsAssistantReply(messages[i]) => messages[i - 1].role = "user"
    /\ loading = (Last(messages).role = "user")

\* C13 as amended: the conversation is the seed message, then at most one
\* assistant message that has no user message before it (the answer to a
\* question a reset removed while its request was pending), then strictly
\* alternating user and assistant messages; it ends with an unanswered user
\* message exactly when a request is pending and no reset has come since the
\* submission, and after such a reset it is the seed message alone.
C13_AlternatingAfterOrphan ==
    /\ IsSeed(messages[1])
    /\ \A i \in 2..Len(messages) :
         /\ messages[i].id # "seed"
         /\ messages[i].role = "user" =>
              IF i < Len(messages) THEN IsAssistantReply(messages[i + 1]) ELSE loading
         /\ (IsAssistantReply(messages[i]) /\ i > 2) => messages[i - 1].role = "user"
    /\ loading => (Last(messages).role = "user" \/ Len(messages) = 1)
    /\ loading = (requests # {})

\* C13 witness: a question is pending in a conversation whose first message
\* after the seed is the answer to a question that a reset removed.
C13_Witness ==
    /\ Len(messages) = 3
    /\ IsAssistantReply(messages[2])
    /\ messages[3].role = "user"
    /\ loading

\* The endpoint configured for a model id of the <select>.
EndpointOf(modelId) == IF modelId = "cluster" THEN PremiumUrl ELSE KeywordUrl

\* C14: in the shell, the request of an accepted submission is made for the
\* model selected at that moment: its endpoint and the model field of its
\* body are that model's.  A later change of the selection leaves the request
\* as it is, and the text of the answer names the same model, whatever is
\* selected when the answer arrives.
C14_ModelFixedAtSubmit ==
    /\ [][ (variant = "shell" /\ lastOp' = "handleAsk")
             => \A r \in requests' \ requests :
                  /\ r.model = model
                  /\ r.url = EndpointOf(model)
                  /\ r.payload.model = model ]_vars
    /\ [][ lastOp' = "setModel" => requests' = requests ]_vars
    /\ [][ \A r \in requests :
             (variant = "shell" /\ Resumed(r) /\ "error" \notin DOMAIN Last(messages'))
               => /\ Last(messages').text =
                       "Here is a suggested SQL query using " \o r.payload.model \o "."
                  /\ r.url = EndpointOf(r.payload.model) ]_vars

\* C14 witness: the answer names the basic model although the premium model
\* is selected by now: the selection changed while the request was pending.
C14_Witness ==
    /\ variant = "shell"
    /\ lastOp = "handleAskResume"
    /\ model = "cluster"
    /\ "sql" \in DOMAIN Last(messages)
    /\ Last(messages).text = "Here is a suggested SQL query using keyword."

====
